---- MODULE Spec2Model ----
(***************************************************************************)
(* A model of packages/webviz-core/src/components/ExperimentalFeatures.js: *)
(* the resolution of experimental feature flags from the feature list, the *)
(* persisted overrides and the environment, the module-level list of       *)
(* subscribed components, and setExperimentalFeature with its notification *)
(* loop.                                                                   *)
(*                                                                         *)
(* Feature ids are ordinary identifier strings (own properties of the      *)
(* objects they index).  JavaScript values are records                     *)
(* [kind, entries]: kind is "undefined", "falsy" (null, 0, false),         *)
(* "truthy" (a non-object scalar such as 5 or true) or "object".           *)
(***************************************************************************)
EXTENDS Naturals, Sequences, FiniteSets, TLC

\* Number of reactive consumers (component instances calling
\* useAllExperimentalFeatures) per process run.
MaxComponents == 2

Components == 1..MaxComponents

\* Number of callbacks the list of subscribed components is exercised with
\* on its own.
MaxSubscribers == 3

Subscribers == 1..MaxSubscribers

AllComponents == Components \cup Subscribers

\* The feature ids of the application.  The feature list declares some of
\* them; the others are unknown to it (a removed feature, a mistyped id).
AllIds == {"featureA", "featureB"}

\* The absent property value / missing argument of JavaScript.
Undefined == "undefined"

\* type FeatureStorage = { [id]: "alwaysOn" | "alwaysOff" }
OverrideValues == {"alwaysOn", "alwaysOff"}

\* The declared type of setExperimentalFeature's value argument.
ValidValues == {"default"} \cup OverrideValues

\* What a caller can pass at run time (Flow types are erased).
ArgValues == ValidValues \cup {"bogus"}

\* Strings a persisted map may hold for an id.
StoredStrings == OverrideValues \cup {"bogus"}

Modes == {"development", "production"}

\* type FeatureDescriptions, restricted to the two defaults.
Descriptions == [developmentDefault : BOOLEAN, productionDefault : BOOLEAN]

\* Every feature list over the ids, for the resolution on its own.
AllFeatureLists == UNION {[S -> Descriptions] : S \in SUBSET AllIds}

\* The feature lists of the application with its reactive consumers: no
\* feature, or featureA, on by default in development only.
FeatureLists ==
    {[id \in S |-> [developmentDefault |-> TRUE, productionDefault |-> FALSE]] :
        S \in SUBSET {"featureA"}}

EmptyObject == [id \in {} |-> Undefined]

\* The persisted item under EXPERIMENTAL_FEATURES_STORAGE_KEY: no item, a JSON
\* scalar (falsy or truthy), or a JSON object.
StoredMaps == UNION {[S -> StoredStrings] : S \in SUBSET AllIds}

StoredItems ==
    {[kind |-> k, entries |-> EmptyObject] :
        k \in {"absent", "falsy", "truthy"}}
    \cup {[kind |-> "map", entries |-> m] : m \in StoredMaps}

JsUndefined == [kind |-> "undefined", entries |-> EmptyObject]

VARIABLES
    list,                 \* what getGlobalHooks().experimentalFeaturesList() returns
    mode,                 \* process.env.NODE_ENV
    storage,              \* the persisted item under the storage key
    subscribedComponents, \* the module-level array of update callbacks
    comp,                 \* per component: phase, and the settings state it holds
    pc,                   \* "idle", or "notifying" inside setExperimentalFeature's loop
    loopArr,              \* the array object the for-of loop iterates
    loopIdx,              \* how many of its elements the loop has visited
    aliased,              \* subscribedComponents is still that very array object
    call,                 \* the latest setExperimentalFeature / onChange call of this
                          \* run and its outcome ("restarted": none since a restart)
    invoked,              \* callbacks the call in progress has invoked, in order
    lastRead              \* the latest resolution since the latest call started: who
                          \* ran it, the value it read and the settings it computed

vars == <<list, mode, storage, subscribedComponents, comp, pc, loopArr, loopIdx,
          aliased, call, invoked, lastRead>>

----------------------------------------------------------------------------
(* util/Storage and JavaScript object helpers *)

\* Storage.get(key): the parsed item, undefined when there is none.
StorageGet(item) ==
    CASE item.kind = "map" -> [kind |-> "object", entries |-> item.entries]
      [] item.kind = "falsy" -> [kind |-> "falsy", entries |-> EmptyObject]
      [] item.kind = "truthy" -> [kind |-> "truthy", entries |-> EmptyObject]
      [] OTHER -> JsUndefined

\* Storage.set(key, value): JSON.stringify drops properties whose value is
\* undefined.
StorageSet(obj) ==
    [kind |-> "map",
     entries |-> [id \in {i \in DOMAIN obj : obj[i] # Undefined} |-> obj[id]]]

\* v || {}
OrEmptyObject(v) ==
    IF v.kind \in {"undefined", "falsy"}
    THEN [kind |-> "object", entries |-> EmptyObject]
    ELSE v

\* v[id]
Prop(v, id) ==
    IF v.kind = "object" /\ id \in DOMAIN v.entries THEN v.entries[id] ELSE Undefined

\* Faulty variant: a fresh object instead of a copy.
SpreadNothing(v) == EmptyObject

\* { ...v }: the own enumerable properties of v; none for undefined, null
\* and non-string scalars.
Spread(v) == IF v.kind = "object" THEN v.entries ELSE EmptyObject

----------------------------------------------------------------------------
(* Resolution *)

\* Faulty variant: the two keys exchanged.
getDefaultKeyFlipped(m) ==
    IF m = "production" THEN "developmentDefault" ELSE "productionDefault"

getDefaultKey(m) ==
    IF m = "production" THEN "productionDefault" ELSE "developmentDefault"

\* Faulty variant: also iterates the ids of the persisted map.
ResolveIgnoringList(features, m, item) ==
    LET featureStorage == OrEmptyObject(StorageGet(item))
        ids == DOMAIN features \cup
               {i \in AllIds : Prop(featureStorage, i) \in {"alwaysOn", "alwaysOff"}}
    IN  [id \in ids |->
            IF Prop(featureStorage, id) \in {"alwaysOn", "alwaysOff"}
            THEN [enabled |-> Prop(featureStorage, id) = "alwaysOn", manuallySet |-> TRUE]
            ELSE [enabled |-> features[id][getDefaultKey(m)], manuallySet |-> FALSE]]

\* Faulty variant: any stored value counts as an override.
ResolveTrustingStorage(features, m, item) ==
    LET featureStorage == OrEmptyObject(StorageGet(item))
    IN  [id \in DOMAIN features |->
            IF Prop(featureStorage, id) # Undefined
            THEN [enabled |-> Prop(featureStorage, id) = "alwaysOn", manuallySet |-> TRUE]
            ELSE [enabled |-> features[id][getDefaultKey(m)], manuallySet |-> FALSE]]

\* Faulty variant: iterates the ids of the persisted map instead of the
\* list's.
ResolveOverStorage(features, m, item) ==
    LET featureStorage == OrEmptyObject(StorageGet(item))
    IN  [id \in {i \in AllIds : Prop(featureStorage, i) # Undefined} |->
            IF Prop(featureStorage, id) \in {"alwaysOn", "alwaysOff"}
            THEN [enabled |-> Prop(featureStorage, id) = "alwaysOn", manuallySet |-> TRUE]
            ELSE [enabled |-> id \in DOMAIN features /\ features[id][getDefaultKey(m)],
                  manuallySet |-> FALSE]]

\* getExperimentalFeatureSettings as a function of what it reads.
Resolve(features, m, item) ==
    LET featureStorage == OrEmptyObject(StorageGet(item))
    IN  [id \in DOMAIN features |->
            IF Prop(featureStorage, id) \in {"alwaysOn", "alwaysOff"}
            THEN [enabled |-> Prop(featureStorage, id) = "alwaysOn", manuallySet |-> TRUE]
            ELSE [enabled |-> features[id][getDefaultKey(m)], manuallySet |-> FALSE]]

getExperimentalFeatureSettings == Resolve(list, mode, storage)

\* The shared tail of getExperimentalFeature and useExperimentalFeature.
EnabledIn(settings, id) ==
    IF id \notin DOMAIN settings THEN FALSE ELSE settings[id].enabled

getExperimentalFeature(id) == EnabledIn(getExperimentalFeatureSettings, id)

useExperimentalFeature(c, id) == EnabledIn(comp[c].settings, id)

----------------------------------------------------------------------------
(* The write *)

\* Faulty variant: assigning the value an id already has removes the entry.
newSettingsToggling(obj, id, value) ==
    IF value = "default" \/ (id \in DOMAIN obj /\ obj[id] = value)
    THEN [i \in DOMAIN obj \ {id} |-> obj[i]]
    ELSE [i \in DOMAIN obj \cup {id} |-> IF i = id THEN value ELSE obj[i]]

\* Lines 101-105: delete newSettings[id], or newSettings[id] = value.
newSettings(obj, id, value) ==
    IF value = "default"
    THEN [i \in DOMAIN obj \ {id} |-> obj[i]]
    ELSE [i \in DOMAIN obj \cup {id} |-> IF i = id THEN value ELSE obj[i]]

NoCall ==
    [id |-> "featureA", value |-> "default", logger |-> "notCalled",
     outcome |-> "none", registered |-> <<>>, repeat |-> FALSE]

NoRead == [by |-> "none", item |-> JsUndefined, settings |-> EmptyObject]

Unmounted == [phase |-> "unmounted", settings |-> EmptyObject]

Init ==
    /\ list \in FeatureLists
    /\ mode \in Modes
    /\ storage \in StoredItems
    /\ subscribedComponents = <<>>
    /\ comp = [c \in AllComponents |-> Unmounted]
    /\ pc = "idle"
    /\ loopArr = <<>>
    /\ loopIdx = 0
    /\ aliased = FALSE
    /\ call = NoCall
    /\ invoked = <<>>
    /\ lastRead = NoRead

----------------------------------------------------------------------------
(* Reactive consumers: useAllExperimentalFeatures *)

\* React runs renders, effects and effect cleanups between event handlers,
\* and re-entrantly inside a setSettings call made by an update callback.
Reentrant == pc = "idle" \/ loopIdx >= 1

Mounted(c) == comp[c].phase \in {"rendered", "subscribed"}

\* Line 61: the first render runs the useState initialiser.  Components are
\* numbered in the order of their first render.
Render(c) ==
    /\ Reentrant
    /\ comp[c].phase = "unmounted"
    /\ \A d \in AllComponents : d < c => comp[d].phase # "unmounted"
    /\ comp' = [comp EXCEPT ![c] =
                    [phase |-> "rendered", settings |-> getExperimentalFeatureSettings]]
    /\ UNCHANGED <<list, mode, storage, subscribedComponents, pc, loopArr, loopIdx,
                   aliased, call, invoked, lastRead>>

\* Faulty variant: unshift instead of push.
EffectUnshift(c) ==
    /\ Reentrant
    /\ comp[c].phase = "rendered"
    /\ comp' = [comp EXCEPT ![c].phase = "subscribed"]
    /\ subscribedComponents' = <<c>> \o subscribedComponents
    /\ UNCHANGED <<list, mode, storage, pc, loopArr, loopIdx, aliased, call,
                   invoked, lastRead>>

\* Lines 62-66: the effect pushes the component's update callback; push
\* mutates the array in place, so a loop iterating that array sees it.
Effect(c) ==
    /\ Reentrant
    /\ comp[c].phase = "rendered"
    /\ comp' = [comp EXCEPT ![c].phase = "subscribed"]
    /\ subscribedComponents' = Append(subscribedComponents, c)
    /\ loopArr' = IF pc = "notifying" /\ aliased THEN Append(loopArr, c) ELSE loopArr
    /\ UNCHANGED <<list, mode, storage, pc, loopIdx, aliased, call, invoked,
                   lastRead>>

\* Faulty variant: splice(indexOf(update), 1), which removes the last
\* element when update is no longer in the array.
UnsubscribeSplicing(c) ==
    /\ Reentrant
    /\ comp[c].phase \in {"subscribed", "torn", "tornTwice"}
    /\ comp' = [comp EXCEPT ![c] =
                    [phase |-> IF comp[c].phase = "subscribed" THEN "torn"
                               ELSE "tornTwice",
                     settings |-> EmptyObject]]
    /\ subscribedComponents' =
           IF \E i \in 1..Len(subscribedComponents) : subscribedComponents[i] = c
           THEN SelectSeq(subscribedComponents, LAMBDA fn : fn # c)
           ELSE SubSeq(subscribedComponents, 1, Len(subscribedComponents) - 1)
    /\ aliased' = FALSE
    /\ UNCHANGED <<list, mode, storage, pc, loopArr, loopIdx, call, invoked,
                   lastRead>>

\* Lines 67-69: the function the effect returns assigns a filtered copy; the
\* array a running loop iterates is left as it was.  The phase records
\* whether it has been called once ("torn") or again ("tornTwice").
Unsubscribe(c) ==
    /\ Reentrant
    /\ comp[c].phase \in {"subscribed", "torn", "tornTwice"}
    /\ comp' = [comp EXCEPT ![c] =
                    [phase |-> IF comp[c].phase = "subscribed" THEN "torn"
                               ELSE "tornTwice",
                     settings |-> EmptyObject]]
    /\ subscribedComponents' = SelectSeq(subscribedComponents, LAMBDA fn : fn # c)
    /\ aliased' = FALSE
    /\ UNCHANGED <<list, mode, storage, pc, loopArr, loopIdx, call, invoked,
                   lastRead>>

\* React calls the function the effect returned once, when the component
\* unmounts.
Cleanup(c) == comp[c].phase = "subscribed" /\ Unsubscribe(c)

\* Lines 63-65, called from line 108: update() re-reads the store, resolves
\* and calls setSettings, which React ignores for an unmounted component.
Update ==
    /\ pc = "notifying"
    /\ loopIdx < Len(loopArr)
    /\ LET c == loopArr[loopIdx + 1]
       IN  /\ comp' = IF comp[c].phase = "subscribed"
                      THEN [comp EXCEPT ![c].settings = getExperimentalFeatureSettings]
                      ELSE comp
           /\ invoked' = Append(invoked, c)
    /\ lastRead' = [by |-> "update", item |-> StorageGet(storage),
                    settings |-> getExperimentalFeatureSettings]
    /\ loopIdx' = loopIdx + 1
    /\ UNCHANGED <<list, mode, storage, subscribedComponents, pc, loopArr, aliased,
                   call>>

\* Line 110: the loop is exhausted and setExperimentalFeature returns.
Return ==
    /\ pc = "notifying"
    /\ loopIdx = Len(loopArr)
    /\ pc' = "idle"
    /\ call' = [call EXCEPT !.outcome = "returned", !.registered = <<>>,
                            !.repeat = FALSE]
    /\ invoked' = <<>>
    /\ lastRead' = NoRead
    /\ loopArr' = <<>>
    /\ loopIdx' = 0
    /\ aliased' = FALSE
    /\ UNCHANGED <<list, mode, storage, subscribedComponents, comp>>

----------------------------------------------------------------------------
(* setExperimentalFeature, lines 94-110 *)

\* The record of a call: its arguments, the callbacks registered when it
\* started, whether it repeats the arguments of a call that has just
\* returned, and its outcome: "running", "returned", "threw" (the logger's
\* exception left setExperimentalFeature) or "rejected" (onChange threw).
\* The field logger says whether the logger of line 99 was called, and
\* whether it returned or threw.  Of a call that has ended only its
\* arguments, the logger's behaviour and the outcome are kept.
Called(id, value, outcome) ==
    [id |-> id, value |-> value,
     logger |-> CASE outcome = "threw" -> "threw"
                  [] outcome = "rejected" -> "notCalled"
                  [] OTHER -> "returned",
     outcome |-> outcome,
     registered |-> IF outcome = "running" THEN subscribedComponents ELSE <<>>,
     repeat |-> (outcome = "running" /\ call.outcome = "returned"
                 /\ call.id = id /\ call.value = value)]

\* Faulty variant: the loop runs before storage.set, so every callback
\* resolves from the item as it was.
setExperimentalFeatureNotifyFirst(id, value, loggerThrows) ==
    /\ pc = "idle"
    /\ loggerThrows = FALSE
    /\ storage' = StorageSet(newSettings(Spread(StorageGet(storage)), id, value))
    /\ comp' = [c \in AllComponents |->
                    IF comp[c].phase = "subscribed"
                    THEN [comp[c] EXCEPT !.settings = getExperimentalFeatureSettings]
                    ELSE comp[c]]
    /\ invoked' = subscribedComponents
    /\ lastRead' = IF subscribedComponents = <<>> THEN NoRead
                   ELSE [by |-> "update", item |-> StorageGet(storage),
                         settings |-> getExperimentalFeatureSettings]
    /\ call' = Called(id, value, "returned")
    /\ UNCHANGED <<list, mode, subscribedComponents, pc, loopArr, loopIdx, aliased>>

\* Lines 95-106 and the start of the loop at line 107.  The logger of line
\* 99 is supplied by getGlobalHooks(): when it throws, the exception leaves
\* setExperimentalFeature from line 99.
setExperimentalFeature(id, value, loggerThrows) ==
    /\ pc = "idle"
    /\ invoked' = <<>>
    /\ lastRead' = NoRead
    /\ IF loggerThrows
       THEN /\ call' = Called(id, value, "threw")
            /\ UNCHANGED <<storage, pc, loopArr, loopIdx, aliased>>
       ELSE /\ storage' = StorageSet(newSettings(Spread(StorageGet(storage)), id, value))
            /\ call' = Called(id, value, "running")
            /\ pc' = "notifying"
            /\ loopArr' = subscribedComponents
            /\ loopIdx' = 0
            /\ aliased' = TRUE
    /\ UNCHANGED <<list, mode, subscribedComponents, comp>>

\* Any module of the application calls the exported function.
SetExperimentalFeature ==
    \E id \in AllIds, value \in ArgValues, loggerThrows \in BOOLEAN :
        setExperimentalFeature(id, value, loggerThrows)

\* Lines 189-194: the modal's radio handler, for a feature of the list.
OnChange ==
    /\ \E c \in Components : Mounted(c)
    /\ \E id \in DOMAIN list, value \in ArgValues, loggerThrows \in BOOLEAN :
        IF value # "default" /\ value # "alwaysOn" /\ value # "alwaysOff"
        THEN /\ pc = "idle"
             /\ call' = Called(id, value, "rejected")
             /\ invoked' = <<>>
             /\ lastRead' = NoRead
             /\ UNCHANGED <<list, mode, storage, subscribedComponents, comp, pc,
                            loopArr, loopIdx, aliased>>
        ELSE setExperimentalFeature(id, value, loggerThrows)

----------------------------------------------------------------------------
(* One-shot reads *)

\* Faulty variant: the read saves the object it resolved from.
GetExperimentalFeatureSaving ==
    /\ pc = "idle"
    /\ storage' = StorageSet(Spread(OrEmptyObject(StorageGet(storage))))
    /\ lastRead' = [by |-> "get", item |-> StorageGet(storage),
                    settings |-> getExperimentalFeatureSettings]
    /\ UNCHANGED <<list, mode, subscribedComponents, comp, pc, loopArr,
                   loopIdx, aliased, call, invoked>>

\* Lines 86-87: getExperimentalFeature resolves afresh; its result for id is
\* EnabledIn(lastRead.settings, id).
GetExperimentalFeature ==
    /\ pc = "idle"
    /\ lastRead' = [by |-> "get", item |-> StorageGet(storage),
                    settings |-> getExperimentalFeatureSettings]
    /\ UNCHANGED <<list, mode, storage, subscribedComponents, comp, pc, loopArr,
                   loopIdx, aliased, call, invoked>>

----------------------------------------------------------------------------
(* Process restart *)

\* Faulty variant: the restart also loses the persisted item.
RestartClearingStorage ==
    /\ pc = "idle"
    /\ storage' = [kind |-> "absent", entries |-> EmptyObject]
    /\ subscribedComponents' = <<>>
    /\ comp' = [c \in AllComponents |-> Unmounted]
    /\ call' = [NoCall EXCEPT !.outcome = "restarted"]
    /\ invoked' = <<>>
    /\ lastRead' = NoRead
    /\ UNCHANGED <<list, mode, pc, loopArr, loopIdx, aliased>>

\* The page is reloaded: the module is evaluated again (line 58 makes a new
\* empty array), no component is mounted, and the persisted item stays.
Restart ==
    /\ pc = "idle"
    /\ subscribedComponents' = <<>>
    /\ comp' = [c \in AllComponents |-> Unmounted]
    /\ call' = [NoCall EXCEPT !.outcome = "restarted"]
    /\ invoked' = <<>>
    /\ lastRead' = NoRead
    /\ UNCHANGED <<list, mode, storage, pc, loopArr, loopIdx, aliased>>

Next ==
    \/ \E c \in Components : Render(c)
    \/ \E c \in Components : Effect(c)
    \/ \E c \in Components : Cleanup(c)
    \/ Update
    \/ Return
    \/ SetExperimentalFeature
    \/ OnChange
    \/ Restart

Spec == Init /\ [][Next]_vars

\* The resolution and the write on their own: every feature list, every
\* persisted item, no reactive consumer.
ResolutionInit ==
    /\ list \in AllFeatureLists
    /\ mode \in Modes
    /\ storage \in StoredItems
    /\ subscribedComponents = <<>>
    /\ comp = [c \in AllComponents |-> Unmounted]
    /\ pc = "idle"
    /\ loopArr = <<>>
    /\ loopIdx = 0
    /\ aliased = FALSE
    /\ call = NoCall
    /\ invoked = <<>>
    /\ lastRead = NoRead

ResolutionNext ==
    \/ SetExperimentalFeature
    \/ Return
    \/ GetExperimentalFeature
    \/ Restart

ResolutionSpec == ResolutionInit /\ [][ResolutionNext]_vars

\* The list of subscribed components on its own: more callbacks, the
\* function an effect returned may be called again, and the calls of
\* setExperimentalFeature turn one feature on or back to its default.
RegistryInit ==
    /\ list \in FeatureLists
    /\ mode = "production"
    /\ storage = [kind |-> "absent", entries |-> EmptyObject]
    /\ subscribedComponents = <<>>
    /\ comp = [c \in AllComponents |-> Unmounted]
    /\ pc = "idle"
    /\ loopArr = <<>>
    /\ loopIdx = 0
    /\ aliased = FALSE
    /\ call = NoCall
    /\ invoked = <<>>
    /\ lastRead = NoRead

Toggle ==
    \E value \in {"alwaysOn", "default"}, loggerThrows \in BOOLEAN :
        setExperimentalFeature("featureA", value, loggerThrows)

RegistryNext ==
    \/ \E c \in Subscribers : Render(c)
    \/ \E c \in Subscribers : Effect(c)
    \/ \E c \in Subscribers : Unsubscribe(c)
    \/ Update
    \/ Return
    \/ Toggle
    \/ GetExperimentalFeature

RegistrySpec == RegistryInit /\ [][RegistryNext]_vars

----------------------------------------------------------------------------
(* Properties *)

Range(seq) == {seq[i] : i \in 1..Len(seq)}

Count(seq, x) == Cardinality({i \in 1..Len(seq) : seq[i] = x})

\* The entry of the persisted override map for id, Undefined when the item
\* is no map or has no such entry.
Override(id) ==
    IF storage.kind = "map" /\ id \in DOMAIN storage.entries
    THEN storage.entries[id]
    ELSE Undefined

\* The default of a listed feature in the current environment.
EnvironmentDefault(id) ==
    IF mode = "production" THEN list[id].productionDefault
    ELSE list[id].developmentDefault

DefaultEntry(id) == [enabled |-> EnvironmentDefault(id), manuallySet |-> FALSE]

\* A step that starts a call of setExperimentalFeature or onChange (and
\* ends it at once when it throws).
CallStep == call' # call /\ call.outcome # "running"

\* C1: in every reachable state and for every listed id, the resolved entry
\* is manually set exactly when the persisted map holds "alwaysOn" or
\* "alwaysOff" for the id; then enabled says whether it is "alwaysOn", in
\* both environments; otherwise enabled is developmentDefault in development
\* and productionDefault in production.
ResolvedEntryFollowsOverride ==
    \A id \in DOMAIN list :
        LET entry == getExperimentalFeatureSettings[id]
        IN  /\ entry.manuallySet <=> Override(id) \in {"alwaysOn", "alwaysOff"}
            /\ entry.manuallySet => (entry.enabled <=> Override(id) = "alwaysOn")
            /\ ~entry.manuallySet /\ mode = "development"
                   => (entry.enabled <=> list[id].developmentDefault)
            /\ ~entry.manuallySet /\ mode = "production"
                   => (entry.enabled <=> list[id].productionDefault)

\* After a returned call, in production: one feature on by both defaults is
\* forced off, the other is on by its production default alone.
ResolvedEntryFollowsOverrideWitness ==
    /\ call.outcome = "returned"
    /\ mode = "production"
    /\ DOMAIN list = AllIds
    /\ list["featureA"].developmentDefault /\ list["featureA"].productionDefault
    /\ ~list["featureB"].developmentDefault /\ list["featureB"].productionDefault
    /\ Override("featureA") = "alwaysOff"
    /\ Override("featureB") = Undefined
    /\ getExperimentalFeatureSettings["featureB"].enabled

\* C2: every call of setExperimentalFeature invokes each callback that was
\* registered when it started exactly once before it ends.
EverySubscriberNotifiedOnce ==
    [][/\ (CallStep /\ call'.outcome = "threw") => subscribedComponents = <<>>
       /\ (call.outcome = "running" /\ call'.outcome = "returned")
              => \A c \in Range(call.registered) : Count(invoked, c) = 1]_vars

\* Without the logger's exception: when the loop of a call is exhausted, each
\* callback registered when the call started has been invoked exactly once.
ReturningCallNotifiedEachOnce ==
    (pc = "notifying" /\ loopIdx = Len(loopArr)) =>
        \A c \in Range(call.registered) : Count(invoked, c) = 1

\* C3: a callback invoked by setExperimentalFeature(id, value) reads the
\* item already written, so it sees the new value for id and resolves from
\* it.
CallbackSeesNewValue ==
    lastRead.by = "update" =>
        /\ Prop(lastRead.item, call.id) =
               (IF call.value = "default" THEN Undefined ELSE call.value)
        /\ call.id \in DOMAIN list =>
               lastRead.settings[call.id] =
                   CASE call.value = "alwaysOn" -> [enabled |-> TRUE, manuallySet |-> TRUE]
                     [] call.value = "alwaysOff" -> [enabled |-> FALSE, manuallySet |-> TRUE]
                     [] OTHER -> DefaultEntry(call.id)

\* Two callbacks have run in a call that turns off a listed feature whose
\* default in this environment is on.
CallbackSeesNewValueWitness ==
    /\ lastRead.by = "update"
    /\ Len(invoked) = 2
    /\ call.id \in DOMAIN list
    /\ call.value = "alwaysOff"
    /\ EnvironmentDefault(call.id)

\* C4: setExperimentalFeature(id, "alwaysOn") on a listed id makes the
\* resolved entry {enabled: true, manuallySet: true}, and
\* setExperimentalFeature(id, "default") makes it the environment default
\* with manuallySet false.
RoundTrip ==
    [][(CallStep /\ call'.id \in DOMAIN list) =>
          /\ call'.value = "alwaysOn" =>
                 getExperimentalFeatureSettings'[call'.id] =
                     [enabled |-> TRUE, manuallySet |-> TRUE]
          /\ call'.value = "default" =>
                 getExperimentalFeatureSettings'[call'.id] = DefaultEntry(call'.id)]_vars

\* C5: a call with a value outside "default", "alwaysOn", "alwaysOff" fails,
\* leaves the persisted item as it was and invokes no callback.
InvalidValueRejected ==
    [][(CallStep /\ call'.value \notin ValidValues) =>
          /\ call'.outcome \in {"rejected", "threw"}
          /\ storage' = storage
          /\ pc' = "idle"]_vars

\* C6: when the logger throws, the call still writes the new map, still
\* runs the notification loop, and the exception does not reach the caller.
LoggerFailureIsolated ==
    call.logger = "threw" =>
        /\ call.outcome \in {"running", "returned"}
        /\ Override(call.id) = (IF call.value = "default" THEN Undefined ELSE call.value)

MalformedStorageFailsOpen ==
    lastRead.by = "get" =>
        \A id \in DOMAIN list :
            IF storage.kind = "map" /\ id \in DOMAIN storage.entries
               /\ storage.entries[id] \in OverrideValues
            THEN lastRead.settings[id] =
                     [enabled |-> storage.entries[id] = "alwaysOn", manuallySet |-> TRUE]
            ELSE lastRead.settings[id] = DefaultEntry(id)

\* A read of a map that holds an unrecognised string for one listed feature
\* and a valid override, against the default, for the other.
MalformedStorageFailsOpenWitness ==
    /\ lastRead.by = "get"
    /\ DOMAIN list = AllIds
    /\ Override("featureA") = "bogus"
    /\ EnvironmentDefault("featureA")
    /\ Override("featureB") = "alwaysOn"
    /\ ~EnvironmentDefault("featureB")

\* A read while the persisted item is a scalar.
ScalarStorageRead ==
    lastRead.by = "get" /\ storage.kind = "truthy" /\ DOMAIN list = AllIds

\* C9: a call of setExperimentalFeature(id, value), value one of "default",
\* "alwaysOn", "alwaysOff", made right after a call with the same arguments
\* has returned, leaves the persisted item and the resolved settings as that
\* call left them.
RepeatedCallChangesNothing ==
    [][(CallStep /\ call.outcome = "returned" /\ call'.id = call.id
        /\ call'.value = call.value /\ call'.value \in ValidValues) =>
          /\ storage' = storage
          /\ getExperimentalFeatureSettings' = getExperimentalFeatureSettings]_vars

\* The second of two calls that turn a listed feature off is running.
RepeatedCallChangesNothingWitness ==
    /\ call.outcome = "running"
    /\ call.repeat
    /\ call.value = "alwaysOff"
    /\ call.id \in DOMAIN list
    /\ EnvironmentDefault(call.id)

\* A step that restarts the process.
RestartStep ==
    /\ call'.outcome = "restarted"
    /\ comp' = [c \in AllComponents |-> Unmounted]
    /\ call.outcome # "restarted" \/ comp' # comp

\* C10: a restart empties the list of subscribed components and discards
\* the components' state, and leaves the persisted item and the resolved
\* settings as they were.
OverridesSurviveRestart ==
    [][RestartStep =>
          /\ subscribedComponents' = <<>>
          /\ storage' = storage
          /\ getExperimentalFeatureSettings' = getExperimentalFeatureSettings]_vars

\* After a restart, with no call since, a listed feature is still forced
\* against its default.
OverridesSurviveRestartWitness ==
    /\ call.outcome = "restarted"
    /\ \E id \in DOMAIN list :
          /\ getExperimentalFeatureSettings[id].manuallySet
          /\ getExperimentalFeatureSettings[id].enabled # EnvironmentDefault(id)

\* C11: a call of setExperimentalFeature(id, value) leaves the entry of
\* every other id in the persisted map as it was, present with the same
\* value or absent; entries for ids the list does not declare are kept.
WriteTouchesOnlyItsKey ==
    [][CallStep =>
          \A other \in AllIds \ {call'.id} : Override(other)' = Override(other)]_vars

WriteTouchesOnlyItsKeyWitness ==
    /\ call.outcome = "returned"
    /\ call.id = "featureA"
    /\ call.value = "alwaysOff"
    /\ Override("featureA") = "alwaysOff"
    /\ "featureB" \notin DOMAIN list
    /\ Override("featureB") = "bogus"

\* A step in which getExperimentalFeature resolves the settings.
GetStep == lastRead'.by = "get" /\ lastRead' # lastRead

\* A step in which the loop of setExperimentalFeature invokes a callback.
UpdateStep == pc = "notifying" /\ loopIdx' = loopIdx + 1

\* A step in which a component computes its initial settings.
RenderStep ==
    \E c \in AllComponents : comp[c].phase = "unmounted" /\ comp'[c].phase = "rendered"

\* C12: resolving the settings, from getExperimentalFeature, from a
\* component's first render or from an invoked callback, leaves the persisted
\* item and the list of subscribed components as they were and invokes no
\* callback (other than the one doing the resolving); only a call of
\* setExperimentalFeature changes the persisted item.
ReadsChangeNothing ==
    [][/\ (GetStep \/ RenderStep) =>
              /\ storage' = storage
              /\ subscribedComponents' = subscribedComponents
              /\ invoked' = invoked
       /\ UpdateStep =>
              /\ storage' = storage
              /\ subscribedComponents' = subscribedComponents
              /\ invoked' = Append(invoked, loopArr[loopIdx + 1])
       /\ storage' # storage => (CallStep /\ call'.outcome = "running")]_vars

ReadsChangeNothingWitness ==
    /\ lastRead.by = "get"
    /\ call.outcome = "returned"
    /\ Override("featureA") = "alwaysOn"
    /\ \E c \in AllComponents :
          /\ comp[c].phase = "subscribed"
          /\ "featureA" \in DOMAIN comp[c].settings
          /\ comp[c].settings["featureA"].manuallySet

\* a occurs before b in seq.
Before(seq, a, b) ==
    \E i, j \in 1..Len(seq) : i < j /\ seq[i] = a /\ seq[j] = b

\* C13: the function an effect returned removes exactly the callback that
\* effect pushed, and calling it again changes nothing: every other
\* callback stays in subscribedComponents, in the same relative order.
UnsubscribeRemovesOwnOnly ==
    [][\A c \in AllComponents :
          /\ (comp[c].phase = "subscribed" /\ comp'[c].phase = "torn") =>
                 /\ Range(subscribedComponents') = Range(subscribedComponents) \ {c}
                 /\ Len(subscribedComponents') = Len(subscribedComponents) - 1
                 /\ \A a, b \in Range(subscribedComponents') :
                        Before(subscribedComponents', a, b)
                            <=> Before(subscribedComponents, a, b)
          /\ (comp[c].phase = "torn" /\ comp'[c].phase = "tornTwice") =>
                 subscribedComponents' = subscribedComponents]_vars

UnsubscribeRemovesOwnOnlyWitness ==
    /\ comp[2].phase = "tornTwice"
    /\ subscribedComponents = <<3, 1>>

\* A step that enters setExperimentalFeature.
StartStep == CallStep /\ call'.outcome \in {"running", "threw"}

\* Second half of C14 on its own: a callback whose component has called the
\* function its effect returned is not in subscribedComponents, a call
\* iterates subscribedComponents as it is when the call starts, and only a
\* callback pushed during the loop joins the iterated array.
UnsubscribedNeverInvoked ==
    [][/\ \A c \in AllComponents :
              comp[c].phase \in {"torn", "tornTwice"} =>
                  c \notin Range(subscribedComponents)
       /\ (StartStep /\ call'.outcome = "running") => loopArr' = subscribedComponents
       /\ (pc = "notifying" /\ pc' = "notifying") =>
              \A c \in Range(loopArr') \ Range(loopArr) :
                  comp[c].phase = "rendered" /\ comp'[c].phase = "subscribed"
       /\ UpdateStep => invoked' = Append(invoked, loopArr[loopIdx + 1])]_vars

\* C14: a pushed callback is invoked by every call of setExperimentalFeature
\* that starts while it is in subscribedComponents, and once the function its
\* effect returned has been called outside a notification loop, no later
\* call invokes it.
SubscriptionEndsOnlyByUnsubscribe ==
    [][/\ StartStep => Range(subscribedComponents) \subseteq Range(loopArr')
       /\ (call.outcome = "running" /\ call'.outcome = "returned") =>
              Range(call.registered) \subseteq Range(invoked)
       /\ StartStep =>
              \A c \in AllComponents :
                  comp[c].phase \in {"torn", "tornTwice"} => c \notin Range(loopArr')
       /\ (pc = "notifying" /\ pc' = "notifying") =>
              \A c \in Range(loopArr') \ Range(loopArr) : comp[c].phase = "rendered"]_vars

\* C15: the loop of setExperimentalFeature invokes the callbacks in the
\* order their effects pushed them: a push puts the callback after every
\* callback already there, leaving their order as it was, and a callback is
\* invoked only after every callback that preceded it when the call
\* started, whichever other callbacks have been removed in the meantime.
InvokedInRegistrationOrder ==
    [][/\ \A c \in AllComponents :
              (comp[c].phase = "rendered" /\ comp'[c].phase = "subscribed") =>
                  /\ \A a \in Range(subscribedComponents) :
                         Before(subscribedComponents', a, c)
                  /\ \A a, b \in Range(subscribedComponents) :
                         Before(subscribedComponents', a, b)
                             <=> Before(subscribedComponents, a, b)
       /\ (StartStep /\ call'.outcome = "running") =>
              call'.registered = subscribedComponents
       /\ UpdateStep =>
              \A a \in Range(call.registered) :
                  Before(call.registered, a, loopArr[loopIdx + 1]) =>
                      a \in Range(invoked)]_vars

InvokedInRegistrationOrderWitness ==
    /\ pc = "notifying"
    /\ comp[2].phase = "torn"
    /\ call.registered = <<3, 1>>
    /\ invoked = <<3, 1>>

\* C16: the resolved settings have an entry for each id of the features
\* list and for nothing else: an id present only in the persisted map gets
\* no entry, and an empty list resolves to an empty object.
ResolvedKeysAreListIds ==
    /\ DOMAIN getExperimentalFeatureSettings = DOMAIN list
    /\ lastRead.by = "get" => DOMAIN lastRead.settings = DOMAIN list
    /\ list = EmptyObject => getExperimentalFeatureSettings = EmptyObject

ResolvedKeysAreListIdsWitness ==
    /\ lastRead.by = "get"
    /\ DOMAIN list = {"featureA"}
    /\ Override("featureA") = Undefined
    /\ Override("featureB") = "alwaysOn"
    /\ DOMAIN lastRead.settings = {"featureA"}

\* The list declares nothing and the persisted map has an entry.
EmptyListResolved ==
    /\ lastRead.by = "get"
    /\ list = EmptyObject
    /\ Override("featureA") = "alwaysOn"
    /\ lastRead.settings = EmptyObject

\* C17: whenever no call of setExperimentalFeature is in progress, the
\* settings held by every component between its first render and its
\* unmount equal a fresh resolution, also when a call ran between the
\* component's first render and its effect.
ReactiveViewConsistent ==
    pc = "idle" =>
        \A c \in AllComponents :
            Mounted(c) => comp[c].settings = getExperimentalFeatureSettings

\* The same for the components whose effect has pushed the callback.
SubscribedViewConsistent ==
    pc = "idle" =>
        \A c \in AllComponents :
            comp[c].phase = "subscribed" =>
                comp[c].settings = getExperimentalFeatureSettings

====
